---- MODULE Spec2Model ----
(***************************************************************************)
(* Model of plugins/modules/ibm_svc_info.py: the IBMSVCGatherInfo module   *)
(* (one invocation: main -> apply -> get_*_list -> exit_json / fail_json). *)
(*                                                                         *)
(* The REST client (svc_obj_info), the logger and the AnsibleModule        *)
(* (exit_json, fail_json) are the environment.  Everything the invocation  *)
(* does to them is appended to `trace`, in program order.                  *)
(***************************************************************************)
EXTENDS Integers, Sequences, FiniteSets, TLC

(* ------------------------------ bounds --------------------------------- *)

\* longest gather_subset list that is enumerated label by label
MaxLen == 2

\* largest number of commands the storage system refuses in one environment
MaxFail == 1

\* largest number of records one command returns
MaxRecs == 2

(* ------------------------------ helpers -------------------------------- *)

Range(s) == {s[i] : i \in 1..Len(s)}

Min(S) == CHOOSE x \in S : \A y \in S : x <= y

SeqsUpTo(S, n) == UNION {[1..k -> S] : k \in 0..n}

(* --------------------- tables read off the source ---------------------- *)

\* choices of the gather_subset option, in the order of the argument spec
Choices ==
  << "vol", "pool", "node", "iog", "host", "hc", "fc", "fcport",
     "targetportfc", "iscsiport", "fcmap", "fcconsistgrp", "vdiskcopy",
     "array", "system", "all" >>

\* default of the gather_subset option
DefaultSubset == << "all" >>

\* the list apply() substitutes for an empty list or one that holds 'all'
FullSubset ==
  << "vol", "pool", "node", "iog", "host", "hc", "fc",
     "fcport", "iscsiport", "fcmap", "fcconsistgrp",
     "vdiskcopy", "targetportfc", "array", "system" >>

\* the local variables of apply(), all initialised to []
Locals ==
  { "vol", "pool", "node", "iog", "host", "hc", "fc", "fcport",
    "targetportfc", "iscsiport", "fcmap", "fcconsistgrp", "vdiskcopy",
    "array", "system" }

\* A variant of the if-chain that follows the order of the expanded list.
DispatchInListOrder ==
  << [label |-> "vol",          getter |-> "get_volumes_list",         var |-> "vol"],
     [label |-> "pool",         getter |-> "get_pools_list",           var |-> "pool"],
     [label |-> "node",         getter |-> "get_nodes_list",           var |-> "node"],
     [label |-> "iog",          getter |-> "get_iogroups_list",        var |-> "iog"],
     [label |-> "host",         getter |-> "get_hosts_list",           var |-> "host"],
     [label |-> "hc",           getter |-> "get_host_clusters_list",   var |-> "hc"],
     [label |-> "fc",           getter |-> "get_fc_connectivity_list", var |-> "fc"],
     [label |-> "fcport",       getter |-> "get_fc_ports_list",        var |-> "fcport"],
     [label |-> "iscsiport",    getter |-> "get_iscsi_ports_list",     var |-> "iscsiport"],
     [label |-> "fcmap",        getter |-> "get_fc_map_list",          var |-> "fcmap"],
     [label |-> "fcconsistgrp", getter |-> "get_fcconsistgrp_list",    var |-> "fcconsistgrp"],
     [label |-> "vdiskcopy",    getter |-> "get_vdiskcopy_list",       var |-> "vdiskcopy"],
     [label |-> "targetportfc", getter |-> "get_target_port_fc_list",  var |-> "targetportfc"],
     [label |-> "array",        getter |-> "get_array_list",           var |-> "array"],
     [label |-> "system",       getter |-> "get_system_list",          var |-> "system"] >>

\* A variant of the if-chain in which the first branch is pasted twice.
DispatchVolTwice ==
  << [label |-> "vol",          getter |-> "get_volumes_list",         var |-> "vol"],
     [label |-> "vol",          getter |-> "get_volumes_list",         var |-> "vol"],
     [label |-> "pool",         getter |-> "get_pools_list",           var |-> "pool"],
     [label |-> "node",         getter |-> "get_nodes_list",           var |-> "node"],
     [label |-> "iog",          getter |-> "get_iogroups_list",        var |-> "iog"],
     [label |-> "host",         getter |-> "get_hosts_list",           var |-> "host"],
     [label |-> "hc",           getter |-> "get_host_clusters_list",   var |-> "hc"],
     [label |-> "fc",           getter |-> "get_fc_connectivity_list", var |-> "fc"],
     [label |-> "targetportfc", getter |-> "get_target_port_fc_list",  var |-> "targetportfc"],
     [label |-> "fcport",       getter |-> "get_fc_ports_list",        var |-> "fcport"],
     [label |-> "iscsiport",    getter |-> "get_iscsi_ports_list",     var |-> "iscsiport"],
     [label |-> "fcmap",        getter |-> "get_fc_map_list",          var |-> "fcmap"],
     [label |-> "fcconsistgrp", getter |-> "get_fcconsistgrp_list",    var |-> "fcconsistgrp"],
     [label |-> "vdiskcopy",    getter |-> "get_vdiskcopy_list",       var |-> "vdiskcopy"],
     [label |-> "array",        getter |-> "get_array_list",           var |-> "array"],
     [label |-> "system",       getter |-> "get_system_list",          var |-> "system"] >>

\* the if-chain of apply(), top to bottom: `if <label> in subset:
\* <var> = self.<getter>()`
Dispatch ==
  << [label |-> "vol",          getter |-> "get_volumes_list",         var |-> "vol"],
     [label |-> "pool",         getter |-> "get_pools_list",           var |-> "pool"],
     [label |-> "node",         getter |-> "get_nodes_list",           var |-> "node"],
     [label |-> "iog",          getter |-> "get_iogroups_list",        var |-> "iog"],
     [label |-> "host",         getter |-> "get_hosts_list",           var |-> "host"],
     [label |-> "hc",           getter |-> "get_host_clusters_list",   var |-> "hc"],
     [label |-> "fc",           getter |-> "get_fc_connectivity_list", var |-> "fc"],
     [label |-> "targetportfc", getter |-> "get_target_port_fc_list",  var |-> "targetportfc"],
     [label |-> "fcport",       getter |-> "get_fc_ports_list",        var |-> "fcport"],
     [label |-> "iscsiport",    getter |-> "get_iscsi_ports_list",     var |-> "iscsiport"],
     [label |-> "fcmap",        getter |-> "get_fc_map_list",          var |-> "fcmap"],
     [label |-> "fcconsistgrp", getter |-> "get_fcconsistgrp_list",    var |-> "fcconsistgrp"],
     [label |-> "vdiskcopy",    getter |-> "get_vdiskcopy_list",       var |-> "vdiskcopy"],
     [label |-> "array",        getter |-> "get_array_list",           var |-> "array"],
     [label |-> "system",       getter |-> "get_system_list",          var |-> "system"] >>

\* The 15 get_*_list methods.  Each sends one command and differs from the
\* others only in the command, in the noun of its info message
\* ('Successfully listed %d <info> from array %s') and in the noun of its
\* error message ('Get <err> from array %s failed with error %s ').
Getter(g) ==
  CASE g = "get_volumes_list"         -> [cmd |-> "lsvdisk",        info |-> "volumes",            err |-> "Volumes"]
    [] g = "get_pools_list"           -> [cmd |-> "lsmdiskgrp",     info |-> "pools",              err |-> "Pools"]
    [] g = "get_nodes_list"           -> [cmd |-> "lsnode",         info |-> "pools",              err |-> "Nodes"]
    [] g = "get_hosts_list"           -> [cmd |-> "lshost",         info |-> "hosts",              err |-> "Hosts"]
    [] g = "get_iogroups_list"        -> [cmd |-> "lsiogrp",        info |-> "hosts",              err |-> "IO Groups"]
    [] g = "get_host_clusters_list"   -> [cmd |-> "lshostcluster",  info |-> "host clusters",      err |-> "Host Cluster"]
    [] g = "get_fc_connectivity_list" -> [cmd |-> "lsfabric",       info |-> "fc connectivity",    err |-> "FC Connectivity"]
    [] g = "get_fc_ports_list"        -> [cmd |-> "lsportfc",       info |-> "fc ports",           err |-> "fc ports"]
    [] g = "get_target_port_fc_list"  -> [cmd |-> "lstargetportfc", info |-> "target port fc",     err |-> "target port fc"]
    [] g = "get_iscsi_ports_list"     -> [cmd |-> "lsportip",       info |-> "iscsi ports",        err |-> "iscsi ports"]
    [] g = "get_fc_map_list"          -> [cmd |-> "lsfcmap",        info |-> "fc maps",            err |-> "fc maps"]
    [] g = "get_array_list"           -> [cmd |-> "lsarray",        info |-> "array info",         err |-> "Array info"]
    [] g = "get_system_list"          -> [cmd |-> "lssystem",       info |-> "system info",        err |-> "System info"]
    [] g = "get_fcconsistgrp_list"    -> [cmd |-> "lsfcconsistgrp", info |-> "fcconsistgrp info",  err |-> "fcconsistgrp info"]
    [] g = "get_vdiskcopy_list"       -> [cmd |-> "lsvdiskcopy",    info |-> "vdiskcopy info",     err |-> "vdiskcopy info"]

GetterNames == {Dispatch[i].getter : i \in 1..Len(Dispatch)}

\* the command a getter passes to svc_obj_info
CmdOf(g) == Getter(g).cmd

\* A variant in which get_nodes_list keeps the error message of get_pools_list.
ErrNounNodesAsPools(g) == IF g = "get_nodes_list" THEN "Pools" ELSE Getter(g).err

\* the noun of a getter's error message
ErrNoun(g) == Getter(g).err

\* the noun of a getter's info message
InfoNoun(g) == Getter(g).info

\* the commands the 15 getters send, in the order of the methods in the class
CommandList ==
  << "lsvdisk", "lsmdiskgrp", "lsnode", "lshost", "lsiogrp", "lshostcluster",
     "lsfabric", "lsportfc", "lstargetportfc", "lsportip", "lsfcmap",
     "lsarray", "lssystem", "lsfcconsistgrp", "lsvdiskcopy" >>

Commands == Range(CommandList)

(* ----------------------------- environment ----------------------------- *)

\* module.params['clustername']
ClusterNames == {"svc-cluster-01", "svc-cluster-02"}

\* The records the storage system holds for a command: opaque mappings,
\* different for every command, of different lengths, not sorted by id.
Rows(c) ==
  LET k == CHOOSE i \in 1..Len(CommandList) : CommandList[i] = c
      n == k % (MaxRecs + 1)
  IN  [i \in 1..n |-> [name |-> c, id |-> ((i + k) % n)]]

\* str(e) of the exception svc_obj_info raises when the command is refused
ErrorText(c) == [text |-> "HTTPError 500", cmd |-> c]

\* what svc_obj_info can do with a command: return its rows, or raise
Returns(c) == [ok |-> TRUE, rows |-> Rows(c)]
Raises(c) == [ok |-> FALSE, error |-> ErrorText(c)]
Outcomes(c) == {Returns(c), Raises(c)}

\* the storage system that refuses exactly the commands in F
StorageSystem(F) == [c \in Commands |-> IF c \in F THEN Raises(c) ELSE Returns(c)]

\* the 15 category labels, listed explicitly in the order of the choices
ExplicitAll == SubSeq(Choices, 1, Len(Choices) - 1)

\* the gather_subset lists an invocation is started with: what the argument
\* spec lets through (a list over the choices; the default when it is omitted)
GatherSubsets ==
  SeqsUpTo(Range(Choices), MaxLen) \cup {DefaultSubset, ExplicitAll}

(* -------------------------------- state -------------------------------- *)

VARIABLES
  gather_subset,  \* module.params['gather_subset']
  clustername,    \* module.params['clustername']
  pc,             \* "main", "dispatch", "exited" (exit_json), "failed" (fail_json)
  subset,         \* apply(): the local `subset`
  pos,            \* apply(): the branch of the if-chain control has passed
  locals,         \* apply(): the locals vol, pool, ... , system
  trace           \* REST calls and their outcomes, log entries and the final
                  \* report, in program order

vars == << gather_subset, clustername, pc, subset, pos, locals, trace >>

\* the part of the state one invocation changes
Frame == [pc |-> pc, subset |-> subset, pos |-> pos, locals |-> locals, trace |-> trace]

(* ------------------------------ apply() -------------------------------- *)

\* A variant of the test of apply() that forgets the 'all' wildcard.
NeedsExpansionEmptyOnly(gs) == Len(gs) = 0

\* A variant of the test of apply() that looks for 'all' in first place only.
NeedsExpansionAllFirst(gs) == Len(gs) = 0 \/ gs[1] = "all"

\* `if len(subset) == 0 or 'all' in subset`
NeedsExpansion(gs) == Len(gs) = 0 \/ "all" \in Range(gs)

\* apply(), up to the if-chain: the expansion of the subset, its log entry,
\* and the 15 locals set to []
apply_begin(gs) ==
  [ pc     |-> "dispatch",
    subset |-> IF NeedsExpansion(gs) THEN FullSubset ELSE gs,
    pos    |-> 0,
    locals |-> [v \in Locals |-> << >>],
    trace  |-> IF NeedsExpansion(gs)
               THEN << [kind |-> "log", level |-> "info", fmt |-> "default",
                        noun |-> "all", args |-> << >>] >>
               ELSE << >> ]

\* A variant of the chain that runs every branch, whatever the subset.
NextBranchIgnoringSubset(sub, p) == p + 1

\* A variant of the chain written as a loop over the subset: the branches run
\* in the order in which their labels first occur in the list.
NextBranchInListOrder(sub, p) ==
  LET idx(l) == CHOOSE i \in 1..Len(Dispatch) : Dispatch[i].label = l
      firsts == {j \in 1..Len(sub) :
                   /\ \E i \in 1..Len(Dispatch) : Dispatch[i].label = sub[j]
                   /\ \A m \in 1..(j - 1) : sub[m] # sub[j]}
      cur == IF p = 0 THEN 0 ELSE CHOOSE j \in firsts : idx(sub[j]) = p
      later == {j \in firsts : j > cur}
  IN  IF later = {} THEN Len(Dispatch) + 1 ELSE idx(sub[Min(later)])

\* The next branch of the if-chain, below branch p, whose test
\* `<label> in subset` holds; Len(Dispatch) + 1 when there is none.
NextBranch(sub, p) ==
  LET later == {i \in (p + 1)..Len(Dispatch) : Dispatch[i].label \in Range(sub)}
  IN  IF later = {} THEN Len(Dispatch) + 1 ELSE Min(later)

\* the tuple a getter builds in its except clause
FailureMsg(g, cluster, e) ==
  << [fmt |-> "Get %s from array %s failed with error %s ", noun |-> ErrNoun(g)], cluster, e >>

\* the call a getter makes: svc_obj_info(cmd=..., cmdopts=None, cmdargs=None)
RestCall(g) == [kind |-> "call", cmd |-> CmdOf(g), cmdopts |-> "None", cmdargs |-> "None"]

\* A variant of a getter whose except clause logs the failure and returns
\* nothing, so that the chain goes on.
get_list_swallows(g, f, i, a) ==
  IF a.ok
  THEN [f EXCEPT !.pos = i,
                 !.locals[Dispatch[i].var] = a.rows,
                 !.trace = @ \o << RestCall(g),
                             [kind |-> "return", cmd |-> CmdOf(g), rows |-> a.rows],
                             [kind |-> "log", level |-> "info", fmt |-> "listed",
                              noun |-> InfoNoun(g),
                              args |-> << Len(a.rows), clustername >>] >>]
  ELSE [f EXCEPT !.pos = i,
                 !.trace = @ \o << RestCall(g),
                             [kind |-> "raise", cmd |-> CmdOf(g), error |-> a.error],
                             [kind |-> "log", level |-> "error",
                              msg |-> FailureMsg(g, clustername, a.error)] >>]

\* Branch i of the if-chain, `<var> = self.<getter>()`, run in frame f when
\* svc_obj_info answers a: the getter sends its command; when rows come back it
\* logs their number and returns them, and the branch assigns them; when the
\* call raises it logs the failure and calls fail_json, which ends the process.
get_list(g, f, i, a) ==
  IF a.ok
  THEN [f EXCEPT !.pos = i,
                 !.locals[Dispatch[i].var] = a.rows,
                 !.trace = @ \o << RestCall(g),
                             [kind |-> "return", cmd |-> CmdOf(g), rows |-> a.rows],
                             [kind |-> "log", level |-> "info", fmt |-> "listed",
                              noun |-> InfoNoun(g),
                              args |-> << Len(a.rows), clustername >>] >>]
  ELSE [f EXCEPT !.pc = "failed",
                 !.pos = i,
                 !.trace = @ \o << RestCall(g),
                             [kind |-> "raise", cmd |-> CmdOf(g), error |-> a.error],
                             [kind |-> "log", level |-> "error",
                              msg |-> FailureMsg(g, clustername, a.error)],
                             [kind |-> "fail_json",
                              msg |-> FailureMsg(g, clustername, a.error)] >>]

\* A variant of the exit_json call with FCPorts and TargetPortFC exchanged.
ReportPortsExchanged(l) ==
  [ Volumes        |-> l["vol"],
    Pools          |-> l["pool"],
    Nodes          |-> l["node"],
    IOGroup        |-> l["iog"],
    Hosts          |-> l["host"],
    HostClusters   |-> l["hc"],
    FCConnectivity |-> l["fc"],
    FCConsistgrp   |-> l["fcconsistgrp"],
    VdiskCopy      |-> l["vdiskcopy"],
    FCPorts        |-> l["targetportfc"],
    TargetPortFC   |-> l["fcport"],
    iSCSIPorts     |-> l["iscsiport"],
    FCMaps         |-> l["fcmap"],
    Array          |-> l["array"],
    System         |-> l["system"] ]

\* the keyword arguments of the exit_json call
Report(l) ==
  [ Volumes        |-> l["vol"],
    Pools          |-> l["pool"],
    Nodes          |-> l["node"],
    IOGroup        |-> l["iog"],
    Hosts          |-> l["host"],
    HostClusters   |-> l["hc"],
    FCConnectivity |-> l["fc"],
    FCConsistgrp   |-> l["fcconsistgrp"],
    VdiskCopy      |-> l["vdiskcopy"],
    FCPorts        |-> l["fcport"],
    TargetPortFC   |-> l["targetportfc"],
    iSCSIPorts     |-> l["iscsiport"],
    FCMaps         |-> l["fcmap"],
    Array          |-> l["array"],
    System         |-> l["system"] ]

\* the end of apply(): module.exit_json(...), which ends the process
apply_end(f) ==
  [f EXCEPT !.pc = "exited",
            !.pos = Len(Dispatch) + 1,
            !.trace = Append(@, [kind |-> "exit_json", report |-> Report(f.locals)])]

\* one step of apply() from frame f against the storage system sys
ApplyStep(f, sys) ==
  LET i == NextBranch(f.subset, f.pos)
  IN  IF i > Len(Dispatch)
      THEN apply_end(f)
      ELSE get_list(Dispatch[i].getter, f, i, sys[CmdOf(Dispatch[i].getter)])

\* apply() run to its end from frame f
RECURSIVE ApplyFrom(_, _)
ApplyFrom(f, sys) == IF f.pc = "dispatch" THEN ApplyFrom(ApplyStep(f, sys), sys) ELSE f

\* the whole of apply() for a gather_subset list against the storage system sys
Apply(gs, sys) == ApplyFrom(apply_begin(gs), sys)

(* ------------------------------- actions ------------------------------- *)

Goto(f) ==
  /\ pc' = f.pc
  /\ subset' = f.subset
  /\ pos' = f.pos
  /\ locals' = f.locals
  /\ trace' = f.trace
  /\ UNCHANGED << gather_subset, clustername >>

Init ==
  /\ gather_subset \in GatherSubsets
  /\ clustername \in ClusterNames
  /\ pc = "main"
  /\ subset = << >>
  /\ pos = 0
  /\ locals = [v \in Locals |-> << >>]
  /\ trace = << >>

\* main() enters apply(), which expands the subset and clears its locals
apply ==
  /\ pc = "main"
  /\ Goto(apply_begin(gather_subset))

\* control reaches the branch of the if-chain that calls getter g, and
\* svc_obj_info returns or raises
Call(g) ==
  /\ pc = "dispatch"
  /\ LET i == NextBranch(subset, pos)
     IN  /\ i <= Len(Dispatch)
         /\ Dispatch[i].getter = g
         /\ \E a \in Outcomes(CmdOf(g)) : Goto(get_list(g, Frame, i, a))

get_volumes_list == Call("get_volumes_list")
get_pools_list == Call("get_pools_list")
get_nodes_list == Call("get_nodes_list")
get_hosts_list == Call("get_hosts_list")
get_iogroups_list == Call("get_iogroups_list")
get_host_clusters_list == Call("get_host_clusters_list")
get_fc_connectivity_list == Call("get_fc_connectivity_list")
get_fc_ports_list == Call("get_fc_ports_list")
get_target_port_fc_list == Call("get_target_port_fc_list")
get_iscsi_ports_list == Call("get_iscsi_ports_list")
get_fc_map_list == Call("get_fc_map_list")
get_array_list == Call("get_array_list")
get_system_list == Call("get_system_list")
get_fcconsistgrp_list == Call("get_fcconsistgrp_list")
get_vdiskcopy_list == Call("get_vdiskcopy_list")

\* control falls out of the if-chain: apply() reports success
exit_json ==
  /\ pc = "dispatch"
  /\ NextBranch(subset, pos) > Len(Dispatch)
  /\ Goto(apply_end(Frame))

\* str(e) of an exception raised by a statement of apply() that no getter's
\* try block guards
UnexpectedErrors == {"KeyError: 'gather_subset'", "TypeError: object of type 'NoneType' has no len()"}

\* an exception leaves apply() before the if-chain is entered and reaches the
\* try block of main()
apply_raises ==
  /\ pc = "main"
  /\ \E e \in UnexpectedErrors :
       trace' = Append(trace, [kind |-> "exception", error |-> e])
  /\ pc' = "raised"
  /\ UNCHANGED << gather_subset, clustername, subset, pos, locals >>

\* What is propagating out of apply() at control point p: exit_json and
\* fail_json leave by SystemExit, a failing statement by an Exception.
Propagating(p) ==
  CASE p = "raised" -> "Exception"
    [] p \in {"exited", "failed"} -> "SystemExit"
    [] OTHER -> "nothing"

\* A variant of the handler of main() written as a bare `except:`.
CaughtByBareExcept(x) == x \in {"Exception", "SystemExit"}

\* `except Exception as e` in main()
Caught(x) == x = "Exception"

\* the handler of main(): a debug log entry with the traceback, then fail_json,
\* which ends the process
main_except ==
  /\ Caught(Propagating(pc))
  /\ LET e == IF trace[Len(trace)].kind = "exception"
              THEN trace[Len(trace)].error ELSE "SystemExit"
     IN  trace' = trace \o
           << [kind |-> "log", level |-> "debug", fmt |-> "Exception in apply(): %s",
               noun |-> "traceback", args |-> << e >>],
              [kind |-> "fail_json",
               msg |-> << [fmt |-> "Module failed. Error [%s].", noun |-> "Module"], e >>] >>
  /\ pc' = "main_failed"
  /\ UNCHANGED << gather_subset, clustername, subset, pos, locals >>

Next ==
  \/ apply
  \/ apply_raises
  \/ main_except
  \/ get_volumes_list
  \/ get_pools_list
  \/ get_nodes_list
  \/ get_hosts_list
  \/ get_iogroups_list
  \/ get_host_clusters_list
  \/ get_fc_connectivity_list
  \/ get_fc_ports_list
  \/ get_target_port_fc_list
  \/ get_iscsi_ports_list
  \/ get_fc_map_list
  \/ get_array_list
  \/ get_system_list
  \/ get_fcconsistgrp_list
  \/ get_vdiskcopy_list
  \/ exit_json

Spec == Init /\ [][Next]_vars

\* The invocation is one sequential Python process: while a statement is left
\* to run, it runs.
FairSpec == Spec /\ WF_vars(Next)

(* --------------------- vocabulary of the properties -------------------- *)

\* the categories with the command and the report field each is documented to have
Categories ==
  { [label |-> "vol",          cmd |-> "lsvdisk",        field |-> "Volumes"],
    [label |-> "pool",         cmd |-> "lsmdiskgrp",     field |-> "Pools"],
    [label |-> "node",         cmd |-> "lsnode",         field |-> "Nodes"],
    [label |-> "iog",          cmd |-> "lsiogrp",        field |-> "IOGroup"],
    [label |-> "host",         cmd |-> "lshost",         field |-> "Hosts"],
    [label |-> "hc",           cmd |-> "lshostcluster",  field |-> "HostClusters"],
    [label |-> "fc",           cmd |-> "lsfabric",       field |-> "FCConnectivity"],
    [label |-> "fcport",       cmd |-> "lsportfc",       field |-> "FCPorts"],
    [label |-> "targetportfc", cmd |-> "lstargetportfc", field |-> "TargetPortFC"],
    [label |-> "iscsiport",    cmd |-> "lsportip",       field |-> "iSCSIPorts"],
    [label |-> "fcmap",        cmd |-> "lsfcmap",        field |-> "FCMaps"],
    [label |-> "fcconsistgrp", cmd |-> "lsfcconsistgrp", field |-> "FCConsistgrp"],
    [label |-> "vdiskcopy",    cmd |-> "lsvdiskcopy",    field |-> "VdiskCopy"],
    [label |-> "array",        cmd |-> "lsarray",        field |-> "Array"],
    [label |-> "system",       cmd |-> "lssystem",       field |-> "System"] }

Labels == {c.label : c \in Categories}
Fields == {c.field : c \in Categories}
ListCommands == {c.cmd : c \in Categories}

CategoryOfCmd(cmd) == CHOOSE c \in Categories : c.cmd = cmd

\* the names under which a message may speak of a category
Subjects(label) ==
  CASE label = "vol"          -> {"volumes", "Volumes", "VDisks"}
    [] label = "pool"         -> {"pools", "Pools", "mdiskgrps"}
    [] label = "node"         -> {"nodes", "Nodes"}
    [] label = "iog"          -> {"io groups", "IO Groups", "I/O groups"}
    [] label = "host"         -> {"hosts", "Hosts"}
    [] label = "hc"           -> {"host clusters", "Host Cluster", "Host Clusters"}
    [] label = "fc"           -> {"fc connectivity", "FC Connectivity"}
    [] label = "fcport"       -> {"fc ports", "FC ports"}
    [] label = "targetportfc" -> {"target port fc"}
    [] label = "iscsiport"    -> {"iscsi ports", "iSCSI ports"}
    [] label = "fcmap"        -> {"fc maps", "FC maps"}
    [] label = "fcconsistgrp" -> {"fcconsistgrp info", "fcconsistgrp"}
    [] label = "vdiskcopy"    -> {"vdiskcopy info", "vdiskcopy"}
    [] label = "array"        -> {"array info", "Array info"}
    [] label = "system"       -> {"system info", "System info"}

\* the categories a gather_subset list asks for
Wildcard(gs) == gs = << >> \/ "all" \in Range(gs)
Requested(gs) == IF Wildcard(gs) THEN Labels ELSE Range(gs)

Positions(tr, kinds) == {i \in 1..Len(tr) : tr[i].kind \in kinds}
CallsOf(tr) == SelectSeq(tr, LAMBDA e : e.kind = "call")
CmdsOf(tr) == [i \in 1..Len(CallsOf(tr)) |-> CallsOf(tr)[i].cmd]
Refused(tr) == {tr[i].cmd : i \in Positions(tr, {"raise"})}
Answered(tr) == {tr[i].cmd : i \in Positions(tr, {"return"})}
Last(tr) == tr[Len(tr)]

Terminated == pc \in {"exited", "failed"}

RECURSIVE SubsetsUpTo(_, _)
SubsetsUpTo(S, k) ==
  IF k <= 0 THEN {{}}
  ELSE LET P == SubsetsUpTo(S, k - 1) IN P \cup {X \cup {x} : X \in P, x \in S}

\* the commands of the categories gather_subset asks for
RequestedCommands == {c.cmd : c \in {d \in Categories : d.label \in Requested(gather_subset)}}

\* The storage systems, refusing at most MaxFail commands, that answer the
\* commands of this run the way they were answered; they differ in the
\* requested commands the run did not get to send.
SameOutcomes ==
  { StorageSystem(Refused(trace) \cup X) :
      X \in SubsetsUpTo(RequestedCommands \ (Refused(trace) \cup Answered(trace)),
                        MaxFail - Cardinality(Refused(trace))) }

(* ------------------------------ properties ----------------------------- *)

\* C1: when every query succeeds, gather_subset = ['all'] and gather_subset = []
\* each end with the success report, equal field for field over the 15 fields,
\* of the run that lists the 15 labels explicitly, and all three runs query
\* every one of the 15 categories.
C1_AllAndEmptyEqualExplicit ==
  (pc = "exited" /\ gather_subset \in {<< "all" >>, << >>, ExplicitAll}) =>
    LET ref == Apply(ExplicitAll, StorageSystem({}))
    IN  /\ ref.pc = "exited"
        /\ Last(trace).kind = "exit_json"
        /\ DOMAIN Last(trace).report = Fields
        /\ DOMAIN Last(ref.trace).report = Fields
        /\ \A f \in Fields : Last(trace).report[f] = Last(ref.trace).report[f]
        /\ Range(CmdsOf(trace)) = ListCommands
        /\ Range(CmdsOf(ref.trace)) = ListCommands

C1_Witness ==
  /\ pc = "exited"
  /\ gather_subset = << >>
  /\ Len(Last(trace).report["Volumes"]) > 0

\* C2: for a non-empty gather_subset without 'all' whose queries all succeed,
\* the success report has exactly the 15 fields; the field of a requested
\* category is the sequence its own command returned, unchanged, and the field
\* of a category that was not requested is the empty sequence.
C2_ReportFields ==
  (pc = "exited" /\ ~Wildcard(gather_subset)) =>
    /\ Last(trace).kind = "exit_json"
    /\ DOMAIN Last(trace).report = Fields
    /\ \A c \in Categories :
         IF c.label \in Range(gather_subset)
         THEN \E i \in Positions(trace, {"return"}) :
                /\ trace[i].cmd = c.cmd
                /\ trace[i].rows = Rows(c.cmd)
                /\ Last(trace).report[c.field] = trace[i].rows
         ELSE Last(trace).report[c.field] = << >>

C2_Witness ==
  /\ pc = "exited"
  /\ gather_subset = << "fcport", "node" >>
  /\ Len(Last(trace).report["FCPorts"]) = 2
  /\ Last(trace).report["FCPorts"][1].id # Last(trace).report["FCPorts"][2].id

\* C3: when the query of a category raises, the operation fails at once: no
\* command is sent after the refused one, no success report is emitted, and the
\* failure report carries none of the rows collected before.
C3_FailsImmediately ==
  \A i \in Positions(trace, {"raise"}) :
    /\ pc = "failed"
    /\ Positions(trace, {"call", "return", "exit_json"}) \subseteq 1..(i - 1)
    /\ Len(trace) = i + 2
    /\ trace[i + 1].kind = "log" /\ trace[i + 1].level = "error"
    /\ trace[i + 2].kind = "fail_json"
    /\ DOMAIN trace[i + 2] = {"kind", "msg"}
    /\ Len(trace[i + 2].msg) = 3
    /\ DOMAIN trace[i + 2].msg[1] = {"fmt", "noun"}
    /\ trace[i + 2].msg[2] \in ClusterNames
    /\ trace[i + 2].msg[3] = trace[i].error

C3_Witness ==
  /\ pc = "failed"
  /\ \E v \in Locals : locals[v] # << >>
  /\ NextBranch(subset, pos) <= Len(Dispatch)

\* C4: when the query of a category raises, the failure report given to
\* fail_json, and the error log entry just before it, name that category and
\* no other, carry the text of the error, and carry the clustername parameter.
C4_FailureReport ==
  \A i \in Positions(trace, {"raise"}) :
    LET c == CategoryOfCmd(trace[i].cmd)
        report == trace[i + 2]
        entry == trace[i + 1]
    IN  /\ trace[i - 1].kind = "call" /\ trace[i - 1].cmd = trace[i].cmd
        /\ c.label \in Requested(gather_subset)
        /\ report.kind = "fail_json"
        /\ report.msg[1].noun \in Subjects(c.label)
        /\ \A d \in Categories : d # c => report.msg[1].noun \notin Subjects(d.label)
        /\ report.msg[2] = clustername
        /\ report.msg[3] = trace[i].error
        /\ entry.kind = "log" /\ entry.level = "error"
        /\ entry.msg = report.msg

C4_Witness ==
  /\ pc = "failed"
  /\ Refused(trace) = {"lsnode"}
  /\ Last(trace).msg[1].noun = "Nodes"

\* C5: no retries: in one invocation the command of each category is sent at
\* most once, whether it succeeds or fails, also when a label occurs several
\* times in gather_subset or 'all' is given together with labels; and at most
\* 15 commands are sent.
C5_NoRetries ==
  /\ \A i, j \in Positions(trace, {"call"}) : trace[i].cmd = trace[j].cmd => i = j
  /\ Cardinality(Positions(trace, {"call"})) <= 15

C5_Witness ==
  /\ Terminated
  /\ gather_subset = << "vol", "vol" >>
  /\ CmdsOf(trace) = << "lsvdisk" >>

\* C6: every command sent is one of the 15 list commands, sent with no options
\* and no arguments, and is the command of a category of the (expanded)
\* requested subset.
C6_OnlyRequestedListCommands ==
  \A i \in Positions(trace, {"call"}) :
    /\ trace[i].cmd \in ListCommands
    /\ trace[i].cmdopts = "None"
    /\ trace[i].cmdargs = "None"
    /\ CategoryOfCmd(trace[i].cmd).label \in Requested(gather_subset)

C6_Witness ==
  /\ pc = "exited"
  /\ gather_subset = << "system", "hc" >>
  /\ CmdsOf(trace) = << "lshostcluster", "lssystem" >>

\* C7: for every category whose query succeeds exactly one informational entry
\* is logged for that category, after its query has returned and before the
\* next command is sent, and it records the number of rows returned; no such
\* entry is logged for a category that was not queried or whose query failed.
C7_OneInfoEntryPerSuccess ==
  LET listed == {i \in Positions(trace, {"log"}) :
                   trace[i].level = "info" /\ trace[i].fmt = "listed"}
      of(c) == {i \in listed : trace[i].noun \in Subjects(c.label)}
  IN  \A c \in Categories :
        IF c.cmd \in Answered(trace)
        THEN \E r \in Positions(trace, {"return"}) :
               /\ trace[r].cmd = c.cmd
               /\ of(c) = {r + 1}
               /\ trace[r + 1].args[1] = Len(trace[r].rows)
        ELSE of(c) = {}

\* The part of C7 that does not depend on what the entry calls the rows: every
\* return is followed at once by one info entry with the number of rows and
\* the clustername, and there is no other such entry.
C7_EntryFollowsReturn ==
  LET listed == {i \in Positions(trace, {"log"}) :
                   trace[i].level = "info" /\ trace[i].fmt = "listed"}
  IN  /\ listed = {r + 1 : r \in Positions(trace, {"return"})}
      /\ \A r \in Positions(trace, {"return"}) :
           trace[r + 1].args = << Len(trace[r].rows), clustername >>

\* the lists with the labels of gs, each once, in the order of the choices
Canonical(gs) == SelectSeq(Choices, LAMBDA l : l \in Range(gs))

\* C8: commands are sent one at a time, each only after the one before it has
\* returned, and what is sent depends on the set of requested labels only: a
\* list with the same labels in another order or with other multiplicities
\* sends, for the same query outcomes, the same sequence of commands and ends
\* with the same report (the same category is the first to fail).
C8_OrderDependsOnLabelSetOnly ==
  /\ \A i \in Positions(trace, {"call"}) :
       /\ i < Len(trace)
       /\ trace[i + 1].kind \in {"return", "raise"}
       /\ trace[i + 1].cmd = trace[i].cmd
  /\ Terminated =>
       \A sys \in SameOutcomes :
         LET other == Apply(Canonical(gather_subset), sys)
         IN  /\ CmdsOf(other.trace) = CmdsOf(trace)
             /\ Last(other.trace) = Last(trace)
             /\ other.pc = pc

C8_Witness ==
  /\ pc = "failed"
  /\ gather_subset = << "pool", "vol" >>
  /\ CmdsOf(trace) = << "lsvdisk", "lsmdiskgrp" >>
  /\ Canonical(gather_subset) = << "vol", "pool" >>

\* the commands of a list of labels, label by label
CommandsOfLabels(ls) ==
  [i \in 1..Len(ls) |-> (CHOOSE c \in Categories : c.label = ls[i]).cmd]

\* C9 as stated: with 'all' or an empty list and every query successful, the
\* categories are queried in the order vol, pool, node, iog, host, hc, fc,
\* fcport, iscsiport, fcmap, fcconsistgrp, vdiskcopy, targetportfc, array,
\* system.
C9_OrderOfExpandedList ==
  (pc = "exited" /\ gather_subset \in {<< "all" >>, << >>}) =>
    CmdsOf(trace) = CommandsOfLabels(
      << "vol", "pool", "node", "iog", "host", "hc", "fc", "fcport",
         "iscsiport", "fcmap", "fcconsistgrp", "vdiskcopy", "targetportfc",
         "array", "system" >>)

\* C9 as amended: with 'all' or an empty list and every query successful, the
\* categories are queried in the order of the if-chain: vol, pool, node, iog,
\* host, hc, fc, targetportfc, fcport, iscsiport, fcmap, fcconsistgrp,
\* vdiskcopy, array, system.
C9_OrderOfIfChain ==
  (pc = "exited" /\ gather_subset \in {<< "all" >>, << >>}) =>
    CmdsOf(trace) = CommandsOfLabels(
      << "vol", "pool", "node", "iog", "host", "hc", "fc", "targetportfc",
         "fcport", "iscsiport", "fcmap", "fcconsistgrp", "vdiskcopy",
         "array", "system" >>)

C9_Witness ==
  /\ pc = "exited"
  /\ gather_subset = << "all" >>
  /\ Len(CmdsOf(trace)) = 15
  /\ CmdsOf(trace)[8] = "lstargetportfc"

\* C10: 'all' dominates: a gather_subset that holds 'all' together with other
\* labels, in any position, queries all 15 categories and ends, for the same
\* query outcomes, with the report of gather_subset = ['all'].
C10_AllDominates ==
  (Terminated /\ "all" \in Range(gather_subset) /\ Len(gather_subset) > 1) =>
    /\ pc = "exited" => Range(CmdsOf(trace)) = ListCommands
    /\ \A sys \in SameOutcomes :
         LET alone == Apply(<< "all" >>, sys)
         IN  /\ CmdsOf(alone.trace) = CmdsOf(trace)
             /\ Last(alone.trace) = Last(trace)
             /\ alone.pc = pc

C10_Witness ==
  /\ pc = "exited"
  /\ gather_subset = << "vol", "all" >>
  /\ Len(CmdsOf(trace)) = 15

\* the terminal reports emitted so far, and the end of the invocation
Reports == Positions(trace, {"exit_json", "fail_json"})
Done == pc \in {"exited", "failed", "main_failed"}

\* what C11 says of every state
C11_OneReport ==
  /\ Cardinality(Reports) <= 1
  /\ Done <=> Reports # {}
  /\ Reports \subseteq {Len(trace)}
  /\ Done =>
       /\ Last(trace).kind = "exit_json" <=>
            /\ \A i \in Positions(trace, {"call"}) : trace[i + 1].kind = "return"
            /\ Positions(trace, {"exception"}) = {}
       /\ \A i \in Positions(trace, {"exception"}) :
            /\ Last(trace).kind = "fail_json"
            /\ Last(trace).msg[2] = trace[i].error

\* C11: every invocation ends after finitely many steps with exactly one
\* terminal report, never none and never two: exit_json if and only if every
\* query that was sent succeeded (and no exception left apply()), fail_json
\* otherwise; an exception that leaves apply() is turned into a failure report
\* by main(); and nothing, in particular no other report, follows a report.
C11_TerminatesWithOneReport ==
  /\ []C11_OneReport
  /\ [][~Done]_vars
  /\ <>Done

C11_Witness ==
  /\ pc = "main_failed"
  /\ Cardinality(Reports) = 1
  /\ Last(trace).kind = "fail_json"
  /\ Last(trace).msg[1].fmt = "Module failed. Error [%s]."

====
